---- MODULE Spec2Model ----
(***************************************************************************)
(* Identity registration and credential verification of nuvho-hub-api.    *)
(*                                                                         *)
(* The users table (models/User.js), the Firebase admin wrapper and the    *)
(* request handlers of controllers/authController.js, and the bearer-token *)
(* middlewares (middleware/auth.js in its versions, auth-mysql-test.js).   *)
(*                                                                         *)
(* Every handler is a little process held in a request slot.  A handler    *)
(* yields at each await that reaches the database or the identity          *)
(* provider, so each SQL statement and each provider call is one step.     *)
(* Spec runs one request at a time; ConcSpec interleaves the slots.        *)
(***************************************************************************)
EXTENDS Integers, Sequences, FiniteSets, TLC

\* ------------------------------------------------------------------ bounds
\* requests the controller serves in one run (the middlewares aside)
MaxRequests == 3
\* rows the users table can hold
MaxUsers == 2
\* hours that pass in one run
MaxTicks == 1
\* database statements that fail in one run
MaxFaults == 1
\* requests served in one run of the interleaved specification
MaxConcRequests == 2

\* --------------------------------------------------------------- constants
\* parseInt(req.query.olderThan) || 60
DefaultOlderThan == 60
\* password.length < 6
MinPasswordLen == 6

\* Two requests can be in flight at once.
Slots == {"r1", "r2"}

NullUid == "null"
NoRole == "none"

Roles == {"hoteluser", "superadmin"}
RawEmails == {"a@x", "A@x", "b@x", ""}
Passwords == {"", "abc", "secret1"}
\* A password sent as a JSON number (password: 1234567), not as a string.
NumericPassword == "#1234567"
IsString(p) == p # NumericPassword

\* The bodies of POST /register the model submits: the well-formed ones, the
\* ones with a missing, short or non-string password, and the ones missing a
\* field.
Body(email, pwd, namesOK, role, skip) ==
    [email |-> email, pwd |-> pwd, namesOK |-> namesOK, role |-> role, skip |-> skip]
RegisterBodies ==
    {Body(e, "secret1", TRUE, NoRole, k) : e \in {"a@x", "A@x", "b@x"}, k \in BOOLEAN}
    \cup {Body("a@x", "secret1", TRUE, "superadmin", FALSE)}
    \cup {Body("a@x", "", TRUE, NoRole, k) : k \in BOOLEAN}
    \cup {Body("a@x", "abc", TRUE, NoRole, FALSE)}
    \cup {Body("a@x", NumericPassword, TRUE, NoRole, FALSE)}
    \cup {Body("", "secret1", TRUE, NoRole, FALSE), Body("a@x", "secret1", FALSE, NoRole, FALSE)}

toLowerCase_AsTyped(e) == e

\* email.toLowerCase().trim()
toLowerCase(e) == IF e = "A@x" THEN "a@x" ELSE e

\* password.length
PwdLen(p) == IF p = "" THEN 0 ELSE IF p = "abc" THEN 3 ELSE 7

\* Subject ids the provider hands out on createUser, and subject ids of
\* accounts opened directly at the provider (Firebase-initiated signups), whose
\* ID tokens carry the email the account had when the token was minted.
CreatedUids == {"f1", "f2"}
ClientUids == {"x1"}
Uids == CreatedUids \cup ClientUids
ClientEmail(u) == "a@x"

\* ------------------------------------------------------------------- data
\* A row of the users table as the User constructor exposes it (lastLogin is
\* -1 where last_login is NULL).
Row(id, email, uid, prov, pwd, role, del, at) ==
    [id |-> id, email |-> email, firebaseUid |-> uid, authProvider |-> prov,
     password |-> pwd, role |-> role, isActive |-> TRUE, isDeleted |-> del,
     createdAt |-> at, lastLogin |-> 0 - 1, loginCount |-> 0]

\* no password hash (password_hash IS NULL)
NoHash == << >>

\* null where a user object is expected
NullUser == Row(0, "", NullUid, "", NoHash, NoRole, FALSE, 0)

\* A bearer token: a locally signed JWT (its payload), an ID token of the
\* provider (its subject and its optional custom role claim), or a string
\* that is neither ("short": under 5 characters, "long", "dev": starts with
\* dev-test-token-).
Tok(kind, id, email, role, uid, shape) ==
    [kind |-> kind, id |-> id, email |-> email, role |-> role, uid |-> uid, shape |-> shape]
NoToken == Tok("none", 0, "", NoRole, NullUid, "")
ExtTokens ==
    {Tok("ext", 0, "", NoRole, u, "long") : u \in Uids}
    \cup {Tok("ext", 0, "", "superadmin", "f1", "long")}
JunkTokens == {Tok("junk", 0, "", NoRole, NullUid, sh) : sh \in {"short", "long", "dev"}}

\* req.user; id is a local user id (0 when ext holds a non-numeric id).
Identity(id, ext, email, role) == [id |-> id, ext |-> ext, email |-> email, role |-> role]
NoIdentity == Identity(0, "", "", NoRole)

\* generateToken(user)
generateToken(user) == Tok("jwt", user.id, user.email, user.role, NullUid, "long")

\* firebaseAdmin.createUser: the SDK's outcome to the wrapper's result code
RawCreateOutcomes == {"ok", "auth/email-already-exists", "auth/weak-password",
                      "auth/invalid-email", "auth/internal-error"}
createUserCode(raw) ==
    CASE raw = "ok" -> "success"
      [] raw = "auth/email-already-exists" -> "email-exists"
      [] raw = "auth/weak-password" -> "weak-password"
      [] raw = "auth/invalid-email" -> "invalid-email"
      [] OTHER -> raw

\* A request slot: the handler it runs, where it stands, its request, its
\* locals and its response.
IdleSlot ==
    [op |-> "none", pc |-> "idle",
     email |-> "", pwd |-> "", namesOK |-> FALSE, role |-> NoRole, skip |-> FALSE,
     tok |-> NoToken, olderThan |-> 0,
     id |-> 0, inserted |-> FALSE, mysqlUser |-> NullUser, uid |-> NullUid, fbCode |-> "", delArg |-> NullUid,
     linkCalls |-> 0, linkErr |-> FALSE,
     status |-> 0, flow |-> "", user |-> NullUser, token |-> NoToken,
     reqUser |-> NoIdentity, authMethod |-> "", count |-> 0,
     allowed |-> {}, roleStatus |-> 0, tried |-> <<>>,
     query |-> "", acquired |-> 0, releases |-> 0]

\* users: the users table.  fbEmail: the email of every account the provider
\* has issued ID tokens for.  fbLive: the accounts createUser made and
\* deleteUser has not removed.  issued: the JWTs generateToken signed.
\* left: requests still to come.
VARIABLES users, fbLive, fbEmail, slots, issued, now, ticks, left, faults,
          firebaseAvail, nodeEnv

vars == <<users, fbLive, fbEmail, slots, issued, now, ticks, left, faults,
          firebaseAvail, nodeEnv>>

Init ==
    /\ users = << >>
    /\ fbLive = {}
    /\ fbEmail = [u \in Uids |-> IF u \in ClientUids THEN ClientEmail(u) ELSE ""]
    /\ slots = [s \in Slots |-> IdleSlot]
    /\ issued = {}
    /\ now = 0
    /\ ticks = 0
    /\ left = MaxRequests
    /\ faults = 0
    /\ firebaseAvail \in BOOLEAN
    /\ nodeEnv \in {"development", "production"}

\* ------------------------------------------------------- the users table
\* bcrypt.hash(password.trim(), salt); null when the password is absent or
\* not a string
bcryptHash(p) == <<"bcrypt", p>>
hashedPassword(p) == IF IsString(p) /\ p # "" THEN bcryptHash(p) ELSE NoHash

Ids == 1..Len(users)

\* SELECT id, email FROM users WHERE email = ?
ExistingUsers(email) == {i \in Ids : users[i].email = toLowerCase(email)}

\* ... WHERE email = ? AND is_active = TRUE AND is_deleted = FALSE
findByEmail(email) ==
    {i \in Ids : /\ users[i].email = toLowerCase(email)
                 /\ users[i].isActive /\ ~users[i].isDeleted}

\* ... WHERE id = ? AND is_active = TRUE AND is_deleted = FALSE
findById(id) ==
    {i \in Ids : i = id /\ users[i].isActive /\ ~users[i].isDeleted}

\* ... WHERE firebase_uid = ? AND is_active = TRUE AND is_deleted = FALSE
findByFirebaseUid(uid) ==
    IF uid = NullUid THEN {}
    ELSE {i \in Ids : /\ users[i].firebaseUid = uid
                      /\ users[i].isActive /\ ~users[i].isDeleted}

\* INSERT INTO users (...) VALUES (..., 'email', ..., NOW())
InsertUser(email, pwd, role) ==
    Append(users, Row(Len(users) + 1, toLowerCase(email), NullUid, "email",
                      hashedPassword(pwd), role, FALSE, now))

SetFirebaseUid_KeepProvider(id, uid) ==
    [users EXCEPT ![id].firebaseUid = uid]

\* UPDATE users SET firebase_uid = ?, auth_provider = 'firebase' WHERE id = ?
SetFirebaseUid(id, uid) ==
    [users EXCEPT ![id].firebaseUid = uid, ![id].authProvider = "firebase"]

SetLastLogin_Nothing(id) == users

\* UPDATE users SET last_login = NOW(), login_count = login_count + 1 WHERE id = ?
SetLastLogin(id) ==
    IF id \in Ids
    THEN [users EXCEPT ![id].loginCount = @ + 1, ![id].lastLogin = now]
    ELSE users

Orphaned_DeletedToo(olderThanMinutes) ==
    {i \in Ids : /\ users[i].firebaseUid = NullUid
                 /\ users[i].authProvider = "email"
                 /\ users[i].createdAt < now - olderThanMinutes}

\* created_at < DATE_SUB(NOW(), INTERVAL ? MINUTE), with the other conditions
\* of cleanupOrphanedUsers' UPDATE
Orphaned(olderThanMinutes) ==
    {i \in Ids : /\ users[i].firebaseUid = NullUid
                 /\ users[i].authProvider = "email"
                 /\ users[i].createdAt < now - olderThanMinutes
                 /\ ~users[i].isDeleted}

MarkDeleted(rows) ==
    [i \in Ids |-> IF i \in rows THEN [users[i] EXCEPT !.isDeleted = TRUE] ELSE users[i]]

\* const { password: _, ...userWithoutPassword } = userInstance
userWithoutPassword(row) == [row EXCEPT !.password = NoHash]

\* ------------------------------------------------------------ the slots
Busy(s) == slots[s].pc \notin {"idle", "done"}

Put(s, sl) == slots' = [slots EXCEPT ![s] = sl]

\* res.status(code).json({user, token, flow})
Respond(sl, status, flow, user, token) ==
    [sl EXCEPT !.pc = "done", !.status = status, !.flow = flow,
               !.user = user, !.token = token]

\* A request enters slot s.
Admit(s) ==
    /\ slots[s].pc = "idle"
    /\ left > 0
    /\ left' = left - 1

\* A database statement fails (connection lost, server error).
Fault ==
    /\ faults < MaxFaults
    /\ faults' = faults + 1

\* ------------------------------------------------ register / User.create
\* role = 'hoteluser' when the body names none
RoleOrDefault(r) == IF r = NoRole THEN "hoteluser" ELSE r

\* !skipFirebase && (!password || password.length < 6); the length of a
\* number is undefined, and undefined < 6 is false
PasswordRejected(skip, pwd) ==
    ~skip /\ (pwd = "" \/ (IsString(pwd) /\ PwdLen(pwd) < MinPasswordLen))

registerCatch_ServerError(sl, message) ==
    Respond(sl, 500, "", NullUser, NoToken)

\* The handler's outer catch: 409 for 'User already exists', else 500.
registerCatch(sl, message) ==
    IF message = "User already exists"
    THEN Respond(sl, 409, "", NullUser, NoToken)
    ELSE Respond(sl, 500, "", NullUser, NoToken)

\* registerFirebaseUser's catch: always 500.
registerFirebaseUserCatch(sl) == Respond(sl, 500, "", NullUser, NoToken)

Throw(sl, message) ==
    IF sl.op = "register" THEN registerCatch(sl, message) ELSE registerFirebaseUserCatch(sl)

registerFinal_Error(sl, flow) ==
    Respond(sl, 500, flow, NullUser, NoToken)

\* "Final response for MySQL-only flows": the user as User.create returned it.
registerFinal(sl, flow) ==
    Respond(sl, 201, flow, sl.mysqlUser, generateToken(sl.mysqlUser))

register_Start(s) ==
    \E body \in RegisterBodies :
      LET sl == [IdleSlot EXCEPT !.op = "register", !.email = body.email,
                                 !.pwd = body.pwd, !.namesOK = body.namesOK,
                                 !.role = RoleOrDefault(body.role), !.skip = body.skip]
      IN /\ Admit(s)
         /\ IF body.email = "" \/ ~body.namesOK
            THEN Put(s, Respond(sl, 400, "", NullUser, NoToken))
            ELSE IF PasswordRejected(body.skip, body.pwd)
            THEN Put(s, Respond(sl, 400, "", NullUser, NoToken))
            ELSE Put(s, [sl EXCEPT !.pc = "c_select"])
         /\ UNCHANGED <<users, fbLive, fbEmail, issued, now, ticks, faults,
                        firebaseAvail, nodeEnv>>

\* User.create up to its first statement: the field check and the SELECT by email.
create_Select(s) ==
    LET sl == slots[s]
    IN /\ sl.pc = "c_select"
       /\ IF sl.email = "" \/ ~sl.namesOK
          THEN Put(s, Throw(sl, "Email, first name, and last name are required"))
          ELSE IF ExistingUsers(sl.email) # {}
          THEN Put(s, Throw(sl, "User already exists"))
          ELSE Put(s, [sl EXCEPT !.pc = "c_insert"])
       /\ UNCHANGED <<users, fbLive, fbEmail, issued, now, ticks, left, faults,
                      firebaseAvail, nodeEnv>>

\* User.create: the INSERT.  The repository holds no definition of the users
\* table: when a row with the email is already there (inserted since this
\* call's SELECT), the statement either adds a second row (no unique index on
\* email) or fails with ER_DUP_ENTRY (a unique index), which create rethrows.
create_Insert(s) ==
    LET sl == slots[s]
    IN /\ sl.pc = "c_insert"
       /\ Len(users) < MaxUsers
       /\ \/ /\ users' = InsertUser(sl.email, sl.pwd, sl.role)
             /\ Put(s, [sl EXCEPT !.pc = "c_fetch", !.id = Len(users) + 1,
                                   !.inserted = TRUE])
          \/ /\ ExistingUsers(sl.email) # {}
             /\ users' = users
             /\ Put(s, Throw(sl, "ER_DUP_ENTRY"))
       /\ UNCHANGED <<fbLive, fbEmail, issued, now, ticks, left, faults,
                      firebaseAvail, nodeEnv>>

afterCreate_LinkFirst(sl) ==
    IF sl.op = "register"
    THEN IF firebaseAvail /\ ~sl.skip
         THEN [sl EXCEPT !.pc = "l_update"]
         ELSE registerFinal(sl, "mysql-only")
    ELSE [sl EXCEPT !.pc = "l_update"]

\* Where the handler goes once User.create returned the new user.
afterCreate(sl) ==
    IF sl.op = "register"
    THEN IF firebaseAvail /\ ~sl.skip
         THEN [sl EXCEPT !.pc = "fb_create"]
         ELSE registerFinal(sl, "mysql-only")
    ELSE [sl EXCEPT !.pc = "l_update"]

\* User.create: SELECT * FROM users WHERE id = ?, and the return.
create_Fetch(s) ==
    LET sl == slots[s]
        got == [sl EXCEPT !.mysqlUser = userWithoutPassword(users[sl.id])]
    IN /\ sl.pc = "c_fetch"
       /\ \/ /\ Put(s, afterCreate(got))
             /\ issued' = IF afterCreate(got).pc = "done"
                          THEN issued \cup {afterCreate(got).token} ELSE issued
             /\ UNCHANGED faults
          \/ /\ Fault
             /\ Put(s, Throw(sl, "db"))
             /\ UNCHANGED issued
       /\ UNCHANGED <<users, fbLive, fbEmail, now, ticks, left, firebaseAvail, nodeEnv>>

\* The subject id the provider assigns next: one it has never used.
Unused == {u \in CreatedUids : fbEmail[u] = ""}
NextUid == IF "f1" \in Unused THEN "f1" ELSE IF "f2" \in Unused THEN "f2" ELSE NullUid

\* STEP 2: firebaseAdmin.createUser and the branch on its result.  On
\* 'email-exists' the handler calls User.delete, which the User class does not
\* define: the TypeError lands in the catch around step 2.
register_CreateFirebaseUser(s) ==
    LET sl == slots[s]
    IN /\ sl.pc = "fb_create"
       /\ \E raw \in RawCreateOutcomes :
            LET code == createUserCode(raw)
                r == [sl EXCEPT !.fbCode = code]
            IN IF code = "success"
               THEN \E uid \in CreatedUids :
                      /\ uid = NextUid
                      /\ fbLive' = fbLive \cup {uid}
                      /\ fbEmail' = [fbEmail EXCEPT ![uid] = toLowerCase(sl.email)]
                      /\ Put(s, [r EXCEPT !.uid = uid, !.pc = "l_update"])
                      /\ UNCHANGED issued
               ELSE /\ IF code = "email-exists"
                       THEN Put(s, registerFinal(r, "mysql-only-firebase-error"))
                       ELSE Put(s, registerFinal(r, "mysql-only-firebase-failed"))
                    /\ issued' = issued \cup {generateToken(sl.mysqlUser)}
                    /\ UNCHANGED <<fbLive, fbEmail>>
       /\ UNCHANGED <<users, now, ticks, left, faults, firebaseAvail, nodeEnv>>

linkFailed_NoRollback(sl) ==
    IF sl.op = "register"
    THEN [sl EXCEPT !.linkErr = TRUE, !.pc = "done", !.status = 201,
                    !.flow = "mysql-only-firebase-rollback", !.user = sl.mysqlUser,
                    !.token = generateToken(sl.mysqlUser)]
    ELSE Respond([sl EXCEPT !.linkErr = TRUE], 500, "", NullUser, NoToken)

\* Where the handler goes when User.updateFirebaseUid throws.
linkFailed(sl) ==
    IF sl.op = "register"
    THEN [sl EXCEPT !.linkErr = TRUE, !.pc = "fb_delete"]
    ELSE registerFirebaseUserCatch([sl EXCEPT !.linkErr = TRUE])

\* User.updateFirebaseUid: the UPDATE.
updateFirebaseUid_Update(s) ==
    LET sl == slots[s]
        called == [sl EXCEPT !.linkCalls = @ + 1]
    IN /\ sl.pc = "l_update"
       /\ \/ /\ users' = SetFirebaseUid(sl.id, sl.uid)
             /\ Put(s, [called EXCEPT !.pc = "l_fetch"])
             /\ UNCHANGED faults
          \/ /\ Fault
             /\ Put(s, linkFailed(called))
             /\ UNCHANGED users
       /\ UNCHANGED <<fbLive, fbEmail, issued, now, ticks, left, firebaseAvail, nodeEnv>>

\* The response once User.updateFirebaseUid returned the updated user.
afterLink(sl, updatedUser) ==
    IF sl.op = "register"
    THEN Respond(sl, 201, "mysql-firebase-complete", updatedUser, generateToken(updatedUser))
    ELSE Respond(sl, IF sl.flow = "firebase-mysql-complete" THEN 201 ELSE 200, sl.flow,
                 updatedUser, generateToken(updatedUser))

\* User.updateFirebaseUid: SELECT * FROM users WHERE id = ?, and the return.
updateFirebaseUid_Fetch(s) ==
    LET sl == slots[s]
        updatedUser == userWithoutPassword(users[sl.id])
    IN /\ sl.pc = "l_fetch"
       /\ \/ /\ Put(s, afterLink(sl, updatedUser))
             /\ issued' = issued \cup {generateToken(updatedUser)}
             /\ UNCHANGED faults
          \/ /\ Fault
             /\ Put(s, linkFailed(sl))
             /\ UNCHANGED issued
       /\ UNCHANGED <<users, fbLive, fbEmail, now, ticks, left, firebaseAvail, nodeEnv>>

\* "Rollback Firebase user if MySQL update fails": firebaseAdmin.deleteUser,
\* whose failure the wrapper swallows, then the MySQL-only response.
register_Rollback(s) ==
    LET sl == slots[s]
    IN /\ sl.pc = "fb_delete"
       /\ \E deleted \in BOOLEAN :
            fbLive' = IF deleted THEN fbLive \ {sl.uid} ELSE fbLive
       /\ Put(s, registerFinal([sl EXCEPT !.delArg = sl.uid], "mysql-only-firebase-rollback"))
       /\ issued' = issued \cup {generateToken(sl.mysqlUser)}
       /\ UNCHANGED <<users, fbEmail, now, ticks, left, faults, firebaseAvail, nodeEnv>>

\* ------------------------------------- registerFirebaseUser and login
\* admin.auth().verifyIdToken: an ID token verifies when the provider issued
\* it, that is, when its subject has been created at the provider; the check
\* reads the token alone, so it still passes after the account is deleted.
verifyIdToken(tok) == tok.kind = "ext" /\ fbEmail[tok.uid] # ""

\* jwt.verify(token, process.env.JWT_SECRET): signed by generateToken.  Tokens
\* expire after 24h; a run of the model lasts MaxTicks hours, so none expires.
jwtVerify(tok) == tok.kind = "jwt" /\ tok \in issued

\* additionalData: whether it names a lastName, and the role it names
AdditionalData == {<<FALSE, NoRole>>, <<TRUE, NoRole>>, <<TRUE, "superadmin">>}

registerFirebaseUser_Start(s) ==
    \E tok \in {t \in ExtTokens : t.role = NoRole} \cup {NoToken, Tok("junk", 0, "", NoRole, NullUid, "long")},
       data \in AdditionalData :
      LET lastName == data[1]
          role == data[2]
          sl == [IdleSlot EXCEPT !.op = "registerFirebaseUser", !.tok = tok,
                                 !.namesOK = lastName, !.role = RoleOrDefault(role)]
      IN /\ Admit(s)
         /\ IF tok = NoToken
            THEN Put(s, Respond(sl, 400, "", NullUser, NoToken))
            ELSE IF ~firebaseAvail
            THEN Put(s, Respond(sl, 503, "", NullUser, NoToken))
            ELSE IF ~verifyIdToken(tok)
            THEN Put(s, Respond(sl, 401, "", NullUser, NoToken))
            ELSE Put(s, [sl EXCEPT !.uid = tok.uid, !.email = fbEmail[tok.uid],
                                   !.pc = "f_uid"])
         /\ UNCHANGED <<users, fbLive, fbEmail, issued, now, ticks, faults,
                        firebaseAvail, nodeEnv>>

\* existingUser = await User.findByFirebaseUid(firebaseUid); the method
\* returns null when its SELECT fails.
registerFirebaseUser_FindByUid(s) ==
    LET sl == slots[s]
    IN /\ sl.pc = "f_uid"
       /\ \/ /\ IF findByFirebaseUid(sl.uid) = {}
                THEN Put(s, [sl EXCEPT !.pc = "f_email"])
                ELSE \E i \in findByFirebaseUid(sl.uid) :
                       Put(s, [sl EXCEPT !.id = i, !.mysqlUser = users[i],
                                         !.flow = "existing-firebase-user",
                                         !.pc = "u_login"])
             /\ UNCHANGED faults
          \/ /\ Fault
             /\ Put(s, [sl EXCEPT !.pc = "f_email"])
       /\ UNCHANGED <<users, fbLive, fbEmail, issued, now, ticks, left,
                      firebaseAvail, nodeEnv>>

\* user.password && password && bcrypt.compare(password, user.password)
validatePassword(user, pwd) ==
    user.password # NoHash /\ pwd # "" /\ bcryptHash(pwd) = user.password

login_Start(s) ==
    \E email \in RawEmails, pwd \in Passwords :
      LET sl == [IdleSlot EXCEPT !.op = "login", !.email = email, !.pwd = pwd]
      IN /\ Admit(s)
         /\ IF email = "" \/ pwd = ""
            THEN Put(s, Respond(sl, 400, "", NullUser, NoToken))
            ELSE Put(s, [sl EXCEPT !.pc = "f_email"])
         /\ UNCHANGED <<users, fbLive, fbEmail, issued, now, ticks, faults,
                        firebaseAvail, nodeEnv>>

afterFindByEmail_NeverAdopt(sl, user) ==
    IF sl.op = "login"
    THEN IF user = NullUser \/ ~validatePassword(user, sl.pwd)
         THEN Respond(sl, 401, "", NullUser, NoToken)
         ELSE [sl EXCEPT !.id = user.id, !.mysqlUser = user, !.pc = "u_login"]
    ELSE [sl EXCEPT !.flow = "firebase-mysql-complete", !.pwd = "", !.pc = "c_select"]

\* What each handler does with the result of User.findByEmail.
afterFindByEmail(sl, user) ==
    IF sl.op = "login"
    THEN IF user = NullUser \/ ~validatePassword(user, sl.pwd)
         THEN Respond(sl, 401, "", NullUser, NoToken)
         ELSE [sl EXCEPT !.id = user.id, !.mysqlUser = user, !.pc = "u_login"]
    ELSE IF user # NullUser /\ user.firebaseUid = NullUid
         THEN [sl EXCEPT !.id = user.id, !.flow = "mysql-firebase-link", !.pc = "l_update"]
         ELSE [sl EXCEPT !.flow = "firebase-mysql-complete", !.pwd = "", !.pc = "c_select"]

\* await User.findByEmail(email), in login and in registerFirebaseUser; the
\* method returns null when its SELECT fails.
findByEmail_Step(s) ==
    LET sl == slots[s]
    IN /\ sl.pc = "f_email"
       /\ \/ /\ IF findByEmail(sl.email) = {}
                THEN Put(s, afterFindByEmail(sl, NullUser))
                ELSE \E i \in findByEmail(sl.email) :
                       Put(s, afterFindByEmail(sl, users[i]))
             /\ UNCHANGED faults
          \/ /\ Fault
             /\ Put(s, afterFindByEmail(sl, NullUser))
       /\ UNCHANGED <<users, fbLive, fbEmail, issued, now, ticks, left,
                      firebaseAvail, nodeEnv>>

\* await User.updateLastLogin(id), which logs and swallows a failed UPDATE,
\* and the response, in login and in registerFirebaseUser; the user sent is
\* the object the finder returned, read before the update, password hash
\* included.
updateLastLogin_Step(s) ==
    LET sl == slots[s]
    IN /\ sl.pc = "u_login"
       /\ \/ /\ users' = SetLastLogin(sl.id)
             /\ UNCHANGED faults
          \/ /\ Fault
             /\ users' = users
       /\ Put(s, Respond(sl, 200, sl.flow, sl.mysqlUser, generateToken(sl.mysqlUser)))
       /\ issued' = issued \cup {generateToken(sl.mysqlUser)}
       /\ UNCHANGED <<fbLive, fbEmail, now, ticks, left, firebaseAvail, nodeEnv>>

\* ------------------------------------------------- cleanupOrphanedUsers
\* parseInt(req.query.olderThan) || 60
OlderThanQueries == {"", "0", "1", "-60"}
olderThanMinutes(q) ==
    CASE q = "1" -> 1
      [] q = "-60" -> 0 - 60
      [] OTHER -> DefaultOlderThan

\* The handler and User.cleanupOrphanedUsers: one UPDATE, whose affectedRows
\* is the count answered; when the statement fails the method returns 0.
cleanupOrphanedUsers(s) ==
    \E q \in OlderThanQueries :
      LET minutes == olderThanMinutes(q)
          sl == [IdleSlot EXCEPT !.op = "cleanupOrphanedUsers", !.query = q,
                                 !.olderThan = minutes]
      IN /\ Admit(s)
         /\ \/ /\ users' = MarkDeleted(Orphaned(minutes))
               /\ Put(s, Respond([sl EXCEPT !.count = Cardinality(Orphaned(minutes))],
                                 200, "", NullUser, NoToken))
               /\ UNCHANGED faults
            \/ /\ Fault
               /\ users' = users
               /\ Put(s, Respond(sl, 200, "", NullUser, NoToken))
         /\ UNCHANGED <<fbLive, fbEmail, issued, now, ticks, firebaseAvail, nodeEnv>>

\* ------------------------------------------------------ the middlewares
\* The bearer tokens a caller can present: any token the server issued, any
\* ID token, any other string, or no Authorization header at all.
Presentable == issued \cup ExtTokens \cup JunkTokens \cup {NoToken}

\* next() with req.user set, or res.status(code)
Pass(sl, identity, method) ==
    [sl EXCEPT !.pc = "done", !.status = 200, !.reqUser = identity, !.authMethod = method]
Deny(sl, code) == [sl EXCEPT !.pc = "done", !.status = code]

\* req.user = decoded: the payload of the JWT
decoded(tok) == Identity(tok.id, "", tok.email, tok.role)

\* The identity authMiddleware builds from the user found by Firebase UID.
fromUser(user) == Identity(user.id, "", user.email, user.role)

\* The identity verifyToken and optionalAuth build from the ID token itself.
fromFirebaseToken(tok) ==
    Identity(0, tok.uid, fbEmail[tok.uid], IF tok.role = NoRole THEN "hoteladmin" ELSE tok.role)

\* config/firebase.js verifyFirebaseToken: throws unless Firebase is
\* initialized and the ID token verifies
verifyFirebaseToken(tok) == firebaseAvail /\ verifyIdToken(tok)

authMiddlewareResult_ProviderFirst(sl, tok) ==
    IF tok = NoToken \/ ~firebaseAvail THEN {Deny(sl, 401)}
    ELSE IF jwtVerify(tok) /\ findById(tok.id) # {} THEN {Pass(sl, decoded(tok), "jwt")}
    ELSE {Deny(sl, 401)}

\* middleware/auth.js, the version with JWT first and a lookup of the user
authMiddlewareResult(sl, tok) ==
    IF tok = NoToken THEN {Deny(sl, 401)}
    ELSE IF nodeEnv = "development" /\ tok.shape = "dev"
    THEN {Pass(sl, Identity(1, "", "admin@nuvho.com", "superadmin"), "")}
    ELSE IF jwtVerify(tok)
    THEN IF findById(tok.id) = {} THEN {Deny(sl, 401)} ELSE {Pass(sl, decoded(tok), "jwt")}
    ELSE IF firebaseAvail /\ verifyIdToken(tok)
    THEN IF findByFirebaseUid(tok.uid) = {} THEN {Deny(sl, 401)}
         ELSE {Pass(sl, fromUser(users[i]), "firebase") : i \in findByFirebaseUid(tok.uid)}
    ELSE {Deny(sl, 401)}

\* middleware/auth.js, the version with Firebase first: verifyToken
verifyTokenResult(sl, tok) ==
    IF tok = NoToken THEN {Deny(sl, 401)}
    ELSE IF verifyFirebaseToken(tok) THEN {Pass(sl, fromFirebaseToken(tok), "firebase")}
    ELSE IF jwtVerify(tok) THEN {Pass(sl, decoded(tok), "jwt")}
    ELSE {Deny(sl, 401)}

\* middleware/auth.js optionalAuth: next() in every case, req.user null on failure
optionalAuthResult(sl, tok) ==
    IF tok = NoToken THEN {Pass(sl, NoIdentity, "")}
    ELSE IF verifyFirebaseToken(tok) THEN {Pass(sl, fromFirebaseToken(tok), "firebase")}
    ELSE IF jwtVerify(tok) THEN {Pass(sl, decoded(tok), "jwt")}
    ELSE {Pass(sl, NoIdentity, "")}

\* middleware/auth-mysql-test.js: any Bearer token of 5 characters or more
authMysqlTestResult(sl, tok) ==
    IF tok = NoToken \/ tok.shape = "short" THEN {Deny(sl, 401)}
    ELSE {Pass(sl, Identity(0, "mysql-test-user", "test@mysql.dev", "hoteladmin"), "")}

Middlewares == {"authMiddleware", "verifyToken", "optionalAuth", "authMysqlTest"}

middlewareResult(mw, sl, tok) ==
    CASE mw = "authMiddleware" -> authMiddlewareResult(sl, tok)
      [] mw = "verifyToken" -> verifyTokenResult(sl, tok)
      [] mw = "optionalAuth" -> optionalAuthResult(sl, tok)
      [] OTHER -> authMysqlTestResult(sl, tok)

\* A protected request passes through one of the middlewares.
\* The verifications a middleware calls for a token, in the order it calls
\* them: jwt.verify ("jwt") and the provider's verifyIdToken ("firebase").
\* authMiddleware calls jwt.verify first; verifyToken and optionalAuth call
\* verifyFirebaseToken first, which reaches the provider when Firebase is
\* initialized, and jwt.verify in its catch.
verificationsTried(mw, tok) ==
    IF tok = NoToken THEN <<>>
    ELSE CASE mw = "authMiddleware" ->
                IF nodeEnv = "development" /\ tok.shape = "dev" THEN <<>>
                ELSE IF jwtVerify(tok) THEN <<"jwt">>
                ELSE IF firebaseAvail THEN <<"jwt", "firebase">> ELSE <<"jwt">>
           [] mw \in {"verifyToken", "optionalAuth"} ->
                IF verifyFirebaseToken(tok) THEN <<"firebase">>
                ELSE IF firebaseAvail THEN <<"firebase", "jwt">> ELSE <<"jwt">>
           [] OTHER -> <<>>

Verify(s) ==
    \E mw \in Middlewares, tok \in Presentable :
      /\ slots[s].pc = "idle"
      /\ \E r \in middlewareResult(mw, [IdleSlot EXCEPT !.op = mw, !.tok = tok], tok) :
           Put(s, [r EXCEPT !.tried = verificationsTried(mw, tok)])
      /\ UNCHANGED <<users, fbLive, fbEmail, issued, now, ticks, left, faults,
                     firebaseAvail, nodeEnv>>

\* requireAdmin and requireHotelAdmin
AllowedRoles ==
    {{"superadmin", "superuser", "groupadmin"},
     {"superadmin", "superuser", "groupadmin", "regionaladmin", "hoteladmin"}}

requireRoleResult_HotelAdminsAlways(roles, reqUser) ==
    IF reqUser = NoIdentity THEN 401
    ELSE IF reqUser.role = "hoteladmin" \/ reqUser.role \in roles THEN 200 ELSE 403

\* requireRole(roles)(req, res, next): 401 with no req.user, 403 when
\* req.user.role || 'hoteluser' is not one of the roles, else next()
requireRoleResult(roles, reqUser) ==
    IF reqUser = NoIdentity THEN 401
    ELSE IF (IF reqUser.role = NoRole THEN "hoteluser" ELSE reqUser.role) \in roles
    THEN 200 ELSE 403

\* A route applies requireRole after the middleware that called next().
requireRole(s) ==
    \E roles \in AllowedRoles :
      /\ slots[s].pc = "done"
      /\ slots[s].op \in Middlewares
      /\ slots[s].status = 200
      /\ slots[s].roleStatus = 0
      /\ Put(s, [slots[s] EXCEPT !.allowed = roles,
                                 !.roleStatus = requireRoleResult(roles, slots[s].reqUser)])
      /\ UNCHANGED <<users, fbLive, fbEmail, issued, now, ticks, left, faults,
                     firebaseAvail, nodeEnv>>

\* --------------------------------------------------------- environment
\* Time passes: an hour.
Tick ==
    /\ ticks < MaxTicks
    /\ now' = now + 60
    /\ ticks' = ticks + 1
    /\ UNCHANGED <<users, fbLive, fbEmail, slots, issued, left, faults,
                   firebaseAvail, nodeEnv>>

\* The response has been sent; the slot is free for the next request.
Recycle(s) ==
    /\ slots[s].pc = "done"
    /\ Put(s, IdleSlot)
    /\ UNCHANGED <<users, fbLive, fbEmail, issued, now, ticks, left, faults,
                   firebaseAvail, nodeEnv>>

\* ------------------------------------------------------ specifications
Step(s) ==
    \/ register_Start(s)
    \/ create_Select(s)
    \/ create_Insert(s)
    \/ create_Fetch(s)
    \/ register_CreateFirebaseUser(s)
    \/ updateFirebaseUid_Update(s)
    \/ updateFirebaseUid_Fetch(s)
    \/ register_Rollback(s)
    \/ registerFirebaseUser_Start(s)
    \/ registerFirebaseUser_FindByUid(s)
    \/ login_Start(s)
    \/ findByEmail_Step(s)
    \/ updateLastLogin_Step(s)
    \/ cleanupOrphanedUsers(s)
    \/ Verify(s)
    \/ requireRole(s)
    \/ Recycle(s)

\* One request at a time: a handler runs to its response before the next starts.
Next ==
    \/ Step("r1")
    \/ Tick

Spec == Init /\ [][Next]_vars

\* Requests in different slots interleave at every await: the handlers that
\* write to the users table.
ConcStep(s) ==
    \/ register_Start(s)
    \/ create_Select(s)
    \/ create_Insert(s)
    \/ create_Fetch(s)
    \/ register_CreateFirebaseUser(s)
    \/ updateFirebaseUid_Update(s)
    \/ updateFirebaseUid_Fetch(s)
    \/ register_Rollback(s)
    \/ registerFirebaseUser_Start(s)
    \/ registerFirebaseUser_FindByUid(s)
    \/ findByEmail_Step(s)
    \/ updateLastLogin_Step(s)
    \/ cleanupOrphanedUsers(s)

ConcNext ==
    \/ \E s \in Slots : ConcStep(s)
    \/ Tick

ConcInit ==
    /\ users = << >>
    /\ fbLive = {}
    /\ fbEmail = [u \in Uids |-> IF u \in ClientUids THEN ClientEmail(u) ELSE ""]
    /\ slots = [s \in Slots |-> IdleSlot]
    /\ issued = {}
    /\ now = 0
    /\ ticks = 0
    /\ left = MaxConcRequests
    /\ faults = 0
    /\ firebaseAvail \in BOOLEAN
    /\ nodeEnv \in {"development", "production"}

ConcSpec == ConcInit /\ [][ConcNext]_vars

\* ------------------------------------ the User methods and the pool
\* A call of one User method on its own, from pool.getConnection() to its
\* return or throw: the table it leaves, the number of connection.release()
\* calls on its path, and whether it returned (200) or threw (500).
Outcome(table, released, status) ==
    [users |-> table, releases |-> released, status |-> status]

\* User.create: every throw inside the try reaches the catch, which releases;
\* the return path releases after the fetch, and 'Failed to create user' is
\* thrown after that release.
createOutcomes(email, namesOK, pwd, role) ==
    IF email = "" \/ ~namesOK THEN {Outcome(users, 1, 500)}
    ELSE IF ExistingUsers(email) # {} \/ Len(users) >= MaxUsers
    THEN {Outcome(users, 1, 500)}
    ELSE LET table == InsertUser(email, pwd, role)
             newUsers == {i \in 1..Len(table) : i = Len(users) + 1}
         IN {Outcome(users, 1, 500), Outcome(table, 1, 500),
             IF newUsers = {} THEN Outcome(table, 2, 500) ELSE Outcome(table, 1, 200)}

\* User.updateFirebaseUid: affectedRows === 0 releases and throws, and the
\* catch releases again.
updateFirebaseUidOutcomes(userId, firebaseUid) ==
    IF userId \notin Ids
    THEN {Outcome(users, 1, 500), Outcome(users, 2, 500)}
    ELSE {Outcome(users, 1, 500),
          Outcome(SetFirebaseUid(userId, firebaseUid), 1, 500),
          Outcome(SetFirebaseUid(userId, firebaseUid), 1, 200)}

\* UPDATE users SET password_hash = ? WHERE id = ?
SetPassword(userId, newPassword) ==
    [users EXCEPT ![userId].password = bcryptHash(newPassword)]

\* User.updatePassword: the same shape as updateFirebaseUid.
updatePasswordOutcomes(userId, newPassword) ==
    IF userId \notin Ids
    THEN {Outcome(users, 1, 500), Outcome(users, 2, 500)}
    ELSE {Outcome(users, 1, 500),
          Outcome(SetPassword(userId, newPassword), 1, 500),
          Outcome(SetPassword(userId, newPassword), 1, 200)}

\* findByEmail, findById, findByFirebaseUid: release after the SELECT, or in
\* the catch, which returns null.
finderOutcomes == {Outcome(users, 1, 200)}

\* User.updateLastLogin: release after the UPDATE, or in the catch, which
\* swallows the error.
updateLastLoginOutcomes(userId) ==
    {Outcome(SetLastLogin(userId), 1, 200), Outcome(users, 1, 200)}

\* The keys of an updates object: none, a profile field, a field that is not
\* in allowedFields.
UpdateKeys == {{}, {"firstName"}, {"role"}, {"firstName", "role"}}
allowedFields == {"firstName", "lastName", "displayName", "phone", "avatarUrl",
                  "timezone", "language", "hotelName"}

\* User.updateProfile: with no allowed field it releases and throws, and the
\* catch releases again.  The profile columns are not part of the rows here.
updateProfileOutcomes(userId, keys) ==
    IF keys \cap allowedFields = {}
    THEN {Outcome(users, 2, 500)}
    ELSE {Outcome(users, 1, 500), Outcome(users, 1, 200)}

\* User.cleanupOrphanedUsers: release after the UPDATE, or in the catch,
\* which returns 0.
cleanupOrphanedUsersOutcomes(minutes) ==
    {Outcome(MarkDeleted(Orphaned(minutes)), 1, 200), Outcome(users, 1, 200)}

\* One of the paths of a call, with the connection taken from the pool.
Called(s, method, outcomes) ==
    \E o \in outcomes :
      /\ users' = o.users
      /\ Put(s, [IdleSlot EXCEPT !.op = method, !.pc = "done", !.status = o.status,
                                 !.acquired = 1, !.releases = o.releases])

User_create(s) ==
    /\ Admit(s)
    /\ \E email \in {"a@x", "b@x", ""}, namesOK \in BOOLEAN :
         Called(s, "User.create", createOutcomes(email, namesOK, "secret1", "hoteluser"))
    /\ UNCHANGED <<fbLive, fbEmail, issued, now, ticks, faults, firebaseAvail, nodeEnv>>

User_updateFirebaseUid(s) ==
    /\ Admit(s)
    /\ \E userId \in 1..MaxUsers, uid \in Uids :
         Called(s, "User.updateFirebaseUid", updateFirebaseUidOutcomes(userId, uid))
    /\ UNCHANGED <<fbLive, fbEmail, issued, now, ticks, faults, firebaseAvail, nodeEnv>>

User_findByEmail(s) ==
    /\ Admit(s)
    /\ Called(s, "User.findByEmail", finderOutcomes)
    /\ UNCHANGED <<fbLive, fbEmail, issued, now, ticks, faults, firebaseAvail, nodeEnv>>

User_findById(s) ==
    /\ Admit(s)
    /\ Called(s, "User.findById", finderOutcomes)
    /\ UNCHANGED <<fbLive, fbEmail, issued, now, ticks, faults, firebaseAvail, nodeEnv>>

User_findByFirebaseUid(s) ==
    /\ Admit(s)
    /\ Called(s, "User.findByFirebaseUid", finderOutcomes)
    /\ UNCHANGED <<fbLive, fbEmail, issued, now, ticks, faults, firebaseAvail, nodeEnv>>

User_updatePassword(s) ==
    /\ Admit(s)
    /\ \E userId \in 1..MaxUsers :
         Called(s, "User.updatePassword", updatePasswordOutcomes(userId, "abc"))
    /\ UNCHANGED <<fbLive, fbEmail, issued, now, ticks, faults, firebaseAvail, nodeEnv>>

User_updateLastLogin(s) ==
    /\ Admit(s)
    /\ \E userId \in 1..MaxUsers :
         Called(s, "User.updateLastLogin", updateLastLoginOutcomes(userId))
    /\ UNCHANGED <<fbLive, fbEmail, issued, now, ticks, faults, firebaseAvail, nodeEnv>>

User_updateProfile(s) ==
    /\ Admit(s)
    /\ \E userId \in 1..MaxUsers, keys \in UpdateKeys :
         Called(s, "User.updateProfile", updateProfileOutcomes(userId, keys))
    /\ UNCHANGED <<fbLive, fbEmail, issued, now, ticks, faults, firebaseAvail, nodeEnv>>

User_cleanupOrphanedUsers(s) ==
    /\ Admit(s)
    /\ \E q \in OlderThanQueries :
         Called(s, "User.cleanupOrphanedUsers",
                cleanupOrphanedUsersOutcomes(olderThanMinutes(q)))
    /\ UNCHANGED <<fbLive, fbEmail, issued, now, ticks, faults, firebaseAvail, nodeEnv>>

PoolNext ==
    \/ User_create("r1")
    \/ User_updateFirebaseUid("r1")
    \/ User_findByEmail("r1")
    \/ User_findById("r1")
    \/ User_findByFirebaseUid("r1")
    \/ User_updatePassword("r1")
    \/ User_updateLastLogin("r1")
    \/ User_updateProfile("r1")
    \/ User_cleanupOrphanedUsers("r1")
    \/ Recycle("r1")
    \/ Tick

PoolSpec == Init /\ [][PoolNext]_vars

\* ---------------------------------------------------------------- claims
Done(s) == slots[s].pc = "done"
Registered(s) == Done(s) /\ slots[s].op = "register"
Verified(s) == Done(s) /\ slots[s].op \in {"authMiddleware", "verifyToken"}

\* C1 (as claimed): when createUser fails with email-exists, register answers
\* 409 and the record it inserted is gone (findByEmail finds none).
C1_AlreadyExistsCompensated ==
    \A s \in Slots :
      (Registered(s) /\ slots[s].fbCode = "email-exists")
        => (slots[s].status = 409 /\ findByEmail(slots[s].email) = {})

\* C2: when createUser succeeded and updateFirebaseUid failed, register has
\* called deleteUser with exactly the subject id createUser returned, answers
\* 201 with the rollback flow tag, and returns a local-only user.
C2_LinkFailureRollsBack ==
    \A s \in Slots :
      (Registered(s) /\ slots[s].fbCode = "success" /\ slots[s].linkErr)
        => /\ slots[s].delArg = slots[s].uid
           /\ slots[s].uid \in CreatedUids
           /\ slots[s].status = 201
           /\ slots[s].flow = "mysql-only-firebase-rollback"
           /\ slots[s].user.authProvider = "email"
           /\ slots[s].user.firebaseUid = NullUid

C2_Witness ==
    \E s \in Slots : Registered(s) /\ slots[s].fbCode = "success" /\ slots[s].linkErr

\* C3 (as claimed): every successful register with Firebase configured and not
\* skipped returns a user with a Firebase UID and auth provider firebase.
C3_ReachableImpliesLinked ==
    \A s \in Slots :
      (Registered(s) /\ slots[s].status = 201 /\ firebaseAvail /\ ~slots[s].skip)
        => (slots[s].user.firebaseUid # NullUid /\ slots[s].user.authProvider = "firebase")

\* C3 (amended): every successful register in which createUser succeeded and
\* updateFirebaseUid did not fail returns a user whose Firebase UID is the one
\* createUser returned and whose auth provider is firebase.
C3_LinkedWhenCreateAndLinkSucceed ==
    \A s \in Slots :
      (Registered(s) /\ slots[s].status = 201 /\ slots[s].fbCode = "success" /\ ~slots[s].linkErr)
        => /\ slots[s].user.firebaseUid = slots[s].uid
           /\ slots[s].uid \in CreatedUids
           /\ slots[s].user.authProvider = "firebase"
           /\ slots[s].flow = "mysql-firebase-complete"

C3_Witness ==
    \E s \in Slots :
      Registered(s) /\ slots[s].status = 201 /\ slots[s].fbCode = "success" /\ ~slots[s].linkErr

\* C4: when createUser fails with any code other than email-exists, register
\* never calls updateFirebaseUid, answers 201 with a MySQL-only flow tag and a
\* token for the returned user, and that user is local-only.
C4_OtherFailuresDegrade ==
    \A s \in Slots :
      (Registered(s) /\ slots[s].fbCode \notin {"", "success", "email-exists"})
        => /\ slots[s].linkCalls = 0
           /\ slots[s].status = 201
           /\ slots[s].flow = "mysql-only-firebase-failed"
           /\ slots[s].token = generateToken(slots[s].user)
           /\ slots[s].token \in issued
           /\ slots[s].user.id \in Ids
           /\ slots[s].user.authProvider = "email"
           /\ slots[s].user.firebaseUid = NullUid

C4_Witness ==
    \E s \in Slots :
      Registered(s) /\ slots[s].fbCode \in {"weak-password", "invalid-email", "auth/internal-error"}

\* The token presented in slot s verified: locally, or at the provider.
VerifiedLocally(s) == jwtVerify(slots[s].tok)
VerifiedExternally(s) == verifyFirebaseToken(slots[s].tok)

\* The identity in slot s is the record i of the users table, field by field.
IdentityOf(s, i) ==
    /\ slots[s].reqUser.id = users[i].id
    /\ slots[s].reqUser.email = users[i].email
    /\ slots[s].reqUser.role = users[i].role

\* C5 (as claimed): an ID token that verifies at the provider but whose
\* subject no local user is linked to is answered 401, with no identity
\* attached to the request.
C5_UnlinkedSubjectRejected ==
    \A s \in Slots :
      (Verified(s) /\ VerifiedExternally(s) /\ findByFirebaseUid(slots[s].tok.uid) = {})
        => (slots[s].status = 401 /\ slots[s].reqUser = NoIdentity)

C7_AdmitsOnlyVerified ==
    \A s \in Slots :
      (Done(s) /\ slots[s].op \in {"authMiddleware", "authMysqlTest"}
               /\ ~VerifiedLocally(s) /\ ~VerifiedExternally(s))
        => (slots[s].status = 401 /\ slots[s].reqUser = NoIdentity)

\* C8 (as claimed): when the token verified and a local user resolves from it
\* (by the id of a JWT, by the subject of an ID token), the identity's id,
\* email and role are those of that user's record.
C8_IdentityFromRecord ==
    \A s \in Slots :
      (Verified(s) /\ slots[s].status = 200)
        => /\ VerifiedLocally(s)
                => \A i \in findById(slots[s].tok.id) : IdentityOf(s, i)
           /\ (~VerifiedLocally(s) /\ VerifiedExternally(s))
                => \A i \in findByFirebaseUid(slots[s].tok.uid) : IdentityOf(s, i)

\* C9 (as claimed): no middleware admits a token of a soft-deleted or inactive
\* user, and no login of such a user succeeds.
C9_DeletedNeverResolves ==
    /\ \A s \in Slots :
         (Verified(s) /\ slots[s].status = 200 /\ VerifiedLocally(s))
           => findById(slots[s].tok.id) # {}
    /\ \A s \in Slots :
         (Verified(s) /\ slots[s].status = 200 /\ ~VerifiedLocally(s) /\ VerifiedExternally(s))
           => \A i \in Ids : users[i].firebaseUid = slots[s].tok.uid
                                => (users[i].isActive /\ ~users[i].isDeleted)
    /\ \A s \in Slots :
         (Done(s) /\ slots[s].op = "login" /\ slots[s].status = 200)
           => findById(slots[s].user.id) # {}

\* C10 (as claimed): a Firebase UID, once set on a record, is never
\* overwritten by a later link.
C10_LinkNeverOverwrites ==
    [][\A i \in Ids : users[i].firebaseUid # NullUid
                        => users'[i].firebaseUid = users[i].firebaseUid]_vars

\* Two register calls have both answered, for the same email, both past the
\* validation and with no statement failing for another reason.
BothRegistered ==
    /\ Registered("r1") /\ Registered("r2")
    /\ toLowerCase(slots["r1"].email) = toLowerCase(slots["r2"].email)
    /\ slots["r1"].status # 400 /\ slots["r2"].status # 400
    /\ faults = 0

\* C11 (as claimed): of two concurrent register calls with the same email one
\* answers 201 and the other 409, and no two non-deleted rows of the users
\* table ever hold the same email.
C11_OneWinsOtherConflicts ==
    /\ BothRegistered => {slots["r1"].status, slots["r2"].status} = {201, 409}
    /\ \A i, j \in Ids :
         (i # j /\ ~users[i].isDeleted /\ ~users[j].isDeleted)
           => users[i].email # users[j].email

\* C12 (as claimed): a record holds a Firebase UID exactly when a call of
\* updateFirebaseUid on it returned, with a subject id the provider gave
\* (createUser's, or a verified ID token's); and its auth provider is
\* firebase exactly when it holds a Firebase UID.
C12_LinkedIffLinkCompleted ==
    /\ \A i \in Ids :
         (users[i].authProvider = "firebase") <=> (users[i].firebaseUid # NullUid)
    /\ \A s \in Slots :
         (Done(s) /\ slots[s].op \in {"register", "registerFirebaseUser"} /\ slots[s].linkCalls > 0)
           => IF slots[s].linkErr
              THEN users[slots[s].id].firebaseUid = NullUid
              ELSE /\ users[slots[s].id].firebaseUid = slots[s].uid
                   /\ fbEmail[slots[s].uid] # ""

\* C13: every step of a register call for an email some row of the users
\* table already holds (its validation, then User.create's SELECT) leaves the
\* users table, the provider and the issued tokens as they were; the SELECT
\* step ends the call with 409, with createUser and updateFirebaseUid never
\* called.
C13_DuplicateRegisterFrame ==
    [][\A s \in Slots :
         (/\ slots'[s].op = "register"
          /\ slots'[s] # slots[s]
          /\ slots[s].pc \in {"idle", "c_select"}
          /\ ExistingUsers(slots'[s].email) # {})
           => /\ users' = users /\ fbLive' = fbLive /\ fbEmail' = fbEmail
              /\ issued' = issued
              /\ slots'[s].fbCode = "" /\ slots'[s].linkCalls = 0
              /\ slots'[s].pc \in {"c_select", "done"}
              /\ (slots'[s].pc = "done") => (slots'[s].status \in {400, 409})
              /\ (slots[s].pc = "c_select")
                    => (slots'[s].pc = "done" /\ slots'[s].status = 409)]_vars

\* A register call answered 409 for the email of a live user.
C13_Witness ==
    \E s \in Slots :
      Registered(s) /\ slots[s].status = 409 /\ findByEmail(slots[s].email) # {}

\* The body carries a password: a string of at least MinPasswordLen characters.
HasPassword(p) == IsString(p) /\ PwdLen(p) >= MinPasswordLen

\* C14 (as claimed): a register call whose body lacks the email or a name, or
\* lacks a password of at least 6 characters while Firebase is not skipped,
\* answers 400 at once, and the users table, the provider and the issued
\* tokens are left as they were.
C14_InvalidInputRejected ==
    [][\A s \in Slots :
         (/\ slots[s].pc = "idle"
          /\ slots'[s].op = "register"
          /\ \/ slots'[s].email = ""
             \/ ~slots'[s].namesOK
             \/ (~slots'[s].skip /\ ~HasPassword(slots'[s].pwd)))
           => /\ slots'[s].pc = "done" /\ slots'[s].status = 400
              /\ users' = users /\ fbLive' = fbLive /\ fbEmail' = fbEmail
              /\ issued' = issued]_vars

\* C15 (as claimed): when a register call has answered, the Firebase account
\* it created, if any, is the Firebase UID of a non-deleted row of the users
\* table or exists no more at the provider.
C15_NoLeakedIdentity ==
    \A s \in Slots :
      (Registered(s) /\ slots[s].uid # NullUid)
        => \/ \E i \in Ids : users[i].firebaseUid = slots[s].uid /\ ~users[i].isDeleted
           \/ slots[s].uid \notin fbLive

\* C16 (as claimed): when register or registerFirebaseUser answers with an
\* error after User.create's INSERT ran, the row that call inserted exists no
\* more (it is deleted, or marked deleted).
C16_ErrorAfterInsertCompensated ==
    \A s \in Slots :
      (/\ Done(s) /\ slots[s].op \in {"register", "registerFirebaseUser"}
       /\ slots[s].inserted /\ slots[s].status >= 400)
        => (slots[s].id \notin Ids \/ users[slots[s].id].isDeleted)

\* C17 (as claimed): while a register call is between User.create's INSERT
\* and its response, no step marks the row it inserted as deleted.
C17_SweepSparesInFlightSaga ==
    [][\A s \in Slots :
         (slots[s].op = "register" /\ Busy(s) /\ slots[s].inserted)
           => (users'[slots[s].id].isDeleted = users[slots[s].id].isDeleted)]_vars

\* The values of olderThan the handler can pass on.
SweepMinutes == {olderThanMinutes(q) : q \in OlderThanQueries}

\* C18: a run of cleanupOrphanedUsers whose UPDATE did not fail answers the
\* number of rows it marked deleted, a positive number when any row matched;
\* in the state it leaves no row matches for the same olderThan, so a second
\* run at once answers 0 and changes no row.
C18_SweepIdempotent ==
    [][\A s \in Slots : \A m \in SweepMinutes :
         (/\ slots[s].pc = "idle"
          /\ slots'[s].op = "cleanupOrphanedUsers"
          /\ slots'[s].olderThan = m
          /\ faults' = faults)
           => /\ slots'[s].count =
                   Cardinality({i \in Ids : users'[i].isDeleted /\ ~users[i].isDeleted})
              /\ (Orphaned(m) # {}) => (slots'[s].count > 0)
              /\ Orphaned(m)' = {}
              /\ Cardinality(Orphaned(m))' = 0
              /\ MarkDeleted(Orphaned(m))' = users']_vars

\* A run of cleanupOrphanedUsers marked a row deleted.
C18_Witness ==
    \E s \in Slots :
      /\ Done(s) /\ slots[s].op = "cleanupOrphanedUsers" /\ slots[s].count > 0
      /\ \E i \in Ids : users[i].isDeleted

\* The rows that were in the users table before the call in slot s began
\* (one call at a time: the only row added since is the one it inserted).
PriorRows(s) == IF slots[s].inserted THEN Ids \ {slots[s].id} ELSE Ids

\* registerFirebaseUser in slot s has answered, its ID token verified.
RegisteredFromFirebase(s) ==
    Done(s) /\ slots[s].op = "registerFirebaseUser" /\ slots[s].uid # NullUid

\* When the call in slot s began, no live user was linked to the token's
\* subject and no live unlinked user had the token's email.
NoUserToSignInOrAdopt(s) ==
    \A i \in PriorRows(s) :
      (users[i].isActive /\ ~users[i].isDeleted)
        => /\ users[i].firebaseUid # slots[s].uid
           /\ ~(users[i].email = toLowerCase(slots[s].email) /\ users[i].firebaseUid = NullUid)

\* C19 (as claimed): registerFirebaseUser with a verified ID token, no user
\* linked to its subject and no unlinked user with its email answers 201 with
\* flow 'firebase-mysql-complete' and a new row linked to the subject; and the
\* row it inserts is at no time stored without the subject's Firebase UID.
C19_CreateAndLink ==
    /\ \A s \in Slots :
         (RegisteredFromFirebase(s) /\ NoUserToSignInOrAdopt(s))
           => /\ slots[s].status = 201
              /\ slots[s].flow = "firebase-mysql-complete"
              /\ slots[s].inserted
              /\ users[slots[s].id].firebaseUid = slots[s].uid
              /\ users[slots[s].id].authProvider = "firebase"
              /\ slots[s].user = userWithoutPassword(users[slots[s].id])
    /\ \A s \in Slots :
         (slots[s].op = "registerFirebaseUser" /\ slots[s].inserted)
           => users[slots[s].id].firebaseUid = slots[s].uid

\* registerFirebaseUser in slot s has found no user by the token's subject and
\* is about to look for one by the token's email.
LookingUpEmail(s) == slots[s].op = "registerFirebaseUser" /\ slots[s].pc = "f_email"

\* C20: registerFirebaseUser with a verified ID token whose subject no user is
\* linked to, when an unlinked live user holds the token's email, goes on to
\* link that user and creates none, and answers 200 with flow
\* 'mysql-firebase-link' and that user, now holding the subject's Firebase UID
\* and auth provider firebase; all this unless a statement of one of its
\* lookups or of User.updateFirebaseUid fails.
C20_AdoptAndLink ==
    /\ [](\A s \in Slots :
            /\ (LookingUpEmail(s) /\ faults = 0) => findByFirebaseUid(slots[s].uid) = {}
            /\ (RegisteredFromFirebase(s) /\ ~slots[s].inserted
                   /\ slots[s].linkCalls > 0 /\ ~slots[s].linkErr)
                 => /\ slots[s].status = 200
                    /\ slots[s].flow = "mysql-firebase-link"
                    /\ slots[s].linkCalls = 1
                    /\ users[slots[s].id].firebaseUid = slots[s].uid
                    /\ users[slots[s].id].authProvider = "firebase"
                    /\ users[slots[s].id].email = toLowerCase(slots[s].email)
                    /\ slots[s].user = userWithoutPassword(users[slots[s].id])
                    /\ slots[s].token = generateToken(slots[s].user))
    /\ [][\A s \in Slots :
            (/\ LookingUpEmail(s) /\ slots'[s] # slots[s] /\ faults' = faults
             /\ \E i \in findByEmail(slots[s].email) : users[i].firebaseUid = NullUid)
              => /\ slots'[s].pc = "l_update"
                 /\ slots'[s].flow = "mysql-firebase-link"
                 /\ ~slots'[s].inserted
                 /\ slots'[s].id \in findByEmail(slots[s].email)
                 /\ users[slots'[s].id].firebaseUid = NullUid
                 /\ users' = users]_vars

\* registerFirebaseUser linked an existing user and answered.
C20_Witness ==
    \E s \in Slots :
      /\ RegisteredFromFirebase(s) /\ slots[s].flow = "mysql-firebase-link"
      /\ slots[s].status = 200 /\ ~slots[s].inserted
      /\ users[slots[s].id].firebaseUid = slots[s].uid

\* The step taken is one of the call in slot s, and no statement failed in it.
Steps(s) == slots'[s] # slots[s] /\ faults' = faults

\* C21: registerFirebaseUser with a verified ID token whose subject a live
\* user is linked to goes on to User.updateLastLogin for that user, which sets
\* last_login to the current time and adds one to login_count and changes
\* nothing else; the call creates and links nothing and answers 200 with flow
\* 'existing-firebase-user' and the user it found (unless a statement fails).
\* With Firebase initialized, a token that does not verify is answered 401
\* and nothing changes.
C21_ExistingLinkedSignsIn ==
    /\ [](\A s \in Slots :
            (RegisteredFromFirebase(s) /\ slots[s].flow = "existing-firebase-user")
              => /\ slots[s].status = 200
                 /\ ~slots[s].inserted /\ slots[s].linkCalls = 0
                 /\ slots[s].user.id = slots[s].id
                 /\ slots[s].user.firebaseUid = slots[s].uid
                 /\ users[slots[s].id].firebaseUid = slots[s].uid
                 /\ slots[s].token = generateToken(slots[s].user))
    /\ [][\A s \in Slots :
            (/\ slots[s].op = "registerFirebaseUser" /\ slots[s].pc = "f_uid"
             /\ Steps(s) /\ findByFirebaseUid(slots[s].uid) # {})
              => /\ slots'[s].pc = "u_login"
                 /\ slots'[s].flow = "existing-firebase-user"
                 /\ slots'[s].id \in findByFirebaseUid(slots[s].uid)
                 /\ slots'[s].mysqlUser = users[slots'[s].id]
                 /\ users' = users]_vars
    /\ [][\A s \in Slots :
            (/\ slots[s].op = "registerFirebaseUser" /\ slots[s].pc = "u_login"
             /\ Steps(s))
              => /\ users' = [users EXCEPT ![slots[s].id].loginCount = @ + 1,
                                           ![slots[s].id].lastLogin = now]
                 /\ fbLive' = fbLive /\ fbEmail' = fbEmail
                 /\ slots'[s].pc = "done" /\ slots'[s].status = 200
                 /\ slots'[s].flow = "existing-firebase-user"
                 /\ slots'[s].user = slots[s].mysqlUser]_vars
    /\ [][\A s \in Slots :
            (/\ slots[s].pc = "idle" /\ slots'[s].op = "registerFirebaseUser"
             /\ firebaseAvail /\ slots'[s].tok # NoToken
             /\ ~verifyIdToken(slots'[s].tok))
              => /\ slots'[s].pc = "done" /\ slots'[s].status = 401
                 /\ users' = users /\ fbLive' = fbLive /\ fbEmail' = fbEmail
                 /\ issued' = issued]_vars

\* registerFirebaseUser signed an already linked user in.
C21_Witness ==
    \E s \in Slots :
      /\ RegisteredFromFirebase(s) /\ slots[s].flow = "existing-firebase-user"
      /\ slots[s].status = 200
      /\ users[slots[s].id].loginCount = slots[s].user.loginCount + 1
      /\ users[slots[s].id].lastLogin = now

\* C22: requireRole lets a request through exactly when the role of the
\* identity the middleware resolved is one of the allowed roles and answers
\* 403 otherwise; the decision is the same function of the role whether the
\* identity came from a locally verified or a provider-verified token.
C22_RoleDecidesAlone ==
    \A s \in Slots :
      (slots[s].roleStatus # 0 /\ slots[s].reqUser # NoIdentity)
        => /\ (slots[s].roleStatus = 200) = (slots[s].reqUser.role \in slots[s].allowed)
           /\ (slots[s].roleStatus # 200) = (slots[s].roleStatus = 403)

C22_Witness ==
    \E s \in Slots :
      /\ slots[s].roleStatus = 403
      /\ slots[s].authMethod = "jwt"
      /\ slots[s].reqUser.role = "hoteluser"
      /\ "hoteladmin" \in slots[s].allowed

\* C23: register runs its steps in order: the provider account is created
\* only after the insert succeeded and at most once per call, the link is
\* written only after the provider created the account and with the subject
\* id it returned, and the token is issued only with the final response.
C23_SagaStepsInOrder ==
    /\ [](\A s \in Slots : slots[s].op = "register" =>
            /\ slots[s].pc = "fb_create" =>
                  /\ slots[s].inserted /\ slots[s].id \in 1..Len(users)
                  /\ slots[s].mysqlUser.id = slots[s].id
                  /\ slots[s].fbCode = "" /\ slots[s].uid = NullUid
                  /\ slots[s].linkCalls = 0
            /\ (slots[s].pc \in {"l_update", "l_fetch"} \/ slots[s].linkCalls > 0) =>
                  /\ slots[s].inserted /\ slots[s].fbCode = "success"
                  /\ slots[s].uid \in CreatedUids
                  /\ fbEmail[slots[s].uid] = toLowerCase(slots[s].email)
                  /\ slots[s].linkCalls <= 1
            /\ slots[s].fbCode # "" => slots[s].inserted
            /\ slots[s].token # NoToken =>
                  /\ slots[s].pc = "done" /\ slots[s].status = 201
                  /\ slots[s].token \in issued
            /\ slots[s].pc \notin {"idle", "done"} => slots[s].token = NoToken)
    /\ [][\A s \in Slots :
            (slots[s].op = "register" /\ slots[s].pc \notin {"idle", "done"}
               /\ slots'[s] # slots[s]) =>
              /\ slots[s].pc = "fb_create" =>
                    /\ slots'[s].fbCode # ""
                    /\ slots'[s].fbCode = "success" =>
                          /\ slots'[s].pc = "l_update"
                          /\ slots'[s].uid \notin fbLive
                          /\ fbEmail[slots'[s].uid] = ""
                          /\ fbLive' = fbLive \cup {slots'[s].uid}
                    /\ slots'[s].fbCode # "success" =>
                          /\ slots'[s].pc = "done"
                          /\ fbLive' = fbLive /\ fbEmail' = fbEmail
                    /\ users' = users
              /\ slots[s].pc # "fb_create" =>
                    /\ fbEmail' = fbEmail
                    /\ slots'[s].fbCode = slots[s].fbCode
                    /\ slots'[s].uid = slots[s].uid
              /\ slots'[s].linkCalls # slots[s].linkCalls =>
                    /\ slots[s].pc = "l_update"
                    /\ users' \in {users, SetFirebaseUid(slots[s].id, slots[s].uid)}
              /\ issued' # issued =>
                    /\ slots'[s].pc = "done"
                    /\ issued' = issued \cup {slots'[s].token}]_vars

C23_Witness ==
    \E s \in Slots :
      /\ Registered(s)
      /\ slots[s].flow = "mysql-firebase-complete"
      /\ slots[s].fbCode = "success"
      /\ slots[s].linkCalls = 1
      /\ slots[s].token \in issued
      /\ users[slots[s].id].firebaseUid = slots[s].uid

\* C24 (as claimed): every middleware that verifies a token tries the local
\* signature first and calls the provider's verification only after the local
\* one failed; for a token that verifies locally the provider is not called.
C24_LocalVerificationFirst ==
    \A s \in Slots :
      (Done(s) /\ slots[s].op \in {"authMiddleware", "verifyToken", "optionalAuth"}
         /\ slots[s].tried # <<>>)
        => /\ slots[s].tried[1] = "jwt"
           /\ jwtVerify(slots[s].tok) => slots[s].tried = <<"jwt">>

\* The minutes a request asks for: the number in ?olderThan=, 60 when absent.
RequestedMinutes(q) ==
    CASE q = "0" -> 0
      [] q = "1" -> 1
      [] q = "-60" -> 0 - 60
      [] OTHER -> DefaultOlderThan

\* C25 (as claimed): a sweep asked for d minutes soft-deletes exactly the
\* non-deleted users with provider 'email', no Firebase UID and created more
\* than d minutes ago, answers their number, changes nothing else of any
\* user, and removes no row.
C25_SweepMarksExactlyOrphans ==
    [][\A s \in Slots :
         (slots[s].pc = "idle" /\ slots'[s].op = "cleanupOrphanedUsers" /\ faults' = faults)
           => /\ users' = MarkDeleted(Orphaned(RequestedMinutes(slots'[s].query)))
              /\ slots'[s].count = Cardinality(Orphaned(RequestedMinutes(slots'[s].query)))
              /\ Len(users') = Len(users)]_vars

\* C26 (as claimed): only a user that is not deleted makes register answer a
\* conflict; when every user holding the email has been soft-deleted, register
\* goes on to insert a new user.
C26_DeletedEmailIsFree ==
    /\ [](\A s \in Slots :
            (Registered(s) /\ slots[s].status = 409)
              => \E i \in Ids : /\ users[i].email = toLowerCase(slots[s].email)
                                /\ ~users[i].isDeleted)
    /\ [][\A s \in Slots :
            (slots[s].op = "register" /\ slots[s].pc = "c_select"
               /\ slots'[s] # slots[s]
               /\ \A i \in Ids : users[i].email = toLowerCase(slots[s].email)
                                    => users[i].isDeleted)
              => slots'[s].pc = "c_insert"]_vars

\* C27 (as claimed): a register call that inserted a user answers with that
\* user in exactly one final state: linked to the live provider account the
\* call created, or unlinked with no provider account of the call left, or
\* deleted; it never answers while the provider account it created is live and
\* the user is not linked to it, and it never changes a link it has written.
C27_ReturnsInTerminalState ==
    /\ [](\A s \in Slots :
            (Registered(s) /\ slots[s].inserted) =>
              LET row == users[slots[s].id]
                  uid == slots[s].uid
              IN \/ /\ ~row.isDeleted /\ uid # NullUid
                    /\ row.firebaseUid = uid /\ uid \in fbLive
                 \/ /\ ~row.isDeleted /\ row.firebaseUid = NullUid
                    /\ (uid = NullUid \/ uid \notin fbLive)
                 \/ /\ row.isDeleted
                    /\ (uid = NullUid \/ uid \notin fbLive))
    /\ [][\A s \in Slots :
            (slots[s].op = "register" /\ slots[s].inserted
               /\ slots[s].pc \notin {"idle", "done"} /\ slots'[s] # slots[s]
               /\ users[slots[s].id].firebaseUid # NullUid)
              => users'[slots[s].id] = users[slots[s].id]]_vars

\* Two emails that differ at most in letter case and surrounding whitespace.
SameIgnoringCase(e1, e2) ==
    \/ e1 = e2
    \/ {e1, e2} = {"a@x", "A@x"}

\* C28: in every state reached by calls handled one after the other, no two
\* users that are not deleted hold emails equal up to letter case, and login
\* with the right password finds the user under any case variant of the email.
C28_EmailsUniqueIgnoringCase ==
    /\ [](\A i, j \in Ids :
            (i # j /\ ~users[i].isDeleted /\ ~users[j].isDeleted)
              => ~SameIgnoringCase(users[i].email, users[j].email))
    /\ [][\A s \in Slots :
            (slots[s].op = "login" /\ slots[s].pc = "f_email" /\ Steps(s)
               /\ \E i \in Ids : /\ SameIgnoringCase(users[i].email, slots[s].email)
                                  /\ users[i].isActive /\ ~users[i].isDeleted
                                  /\ validatePassword(users[i], slots[s].pwd))
              => /\ slots'[s].pc = "u_login"
                 /\ SameIgnoringCase(users[slots'[s].id].email, slots[s].email)]_vars

C28_Witness ==
    /\ \E s \in Slots :
         /\ Registered(s) /\ slots[s].status = 409 /\ slots[s].email = "A@x"
    /\ \E i \in Ids : users[i].email = "a@x" /\ ~users[i].isDeleted
    /\ \A i \in Ids : users[i].email # "A@x"

\* C29 (as claimed): in every state, whatever the interleaving of the calls,
\* at most one user that is not deleted holds a given Firebase UID.
C29_OneUserPerSubject ==
    \A i, j \in Ids :
      (/\ ~users[i].isDeleted /\ ~users[j].isDeleted
       /\ users[i].firebaseUid # NullUid
       /\ users[i].firebaseUid = users[j].firebaseUid)
        => i = j

\* C30 (as claimed): every call of a User method releases the connection it
\* took from the pool exactly once, whether it returns or throws.
C30_ReleasedExactlyOnce ==
    \A s \in Slots :
      (Done(s) /\ slots[s].acquired = 1) => slots[s].releases = 1

====
